---- MODULE Spec2Model ----
(***************************************************************************)
(* Model of src/Main.py: the in-memory job map, the /generate handler, the *)
(* background generation_worker thread of each job, and the /status read.  *)
(* Threads interleave at the granularity of one shared-state access (one   *)
(* dict write, one collaborator call, one file operation) per step.        *)
(***************************************************************************)
EXTENDS Integers, Sequences, FiniteSets, TLC

\* ---------------------------------------------------------------- bounds
MaxJobs == 2          \* job identifiers uuid4 can hand out in one run
MaxHandlers == 1      \* request-handling threads serving /generate at once

JobIds == 1..MaxJobs
Handlers == 1..MaxHandlers

\* ------------------------------------------------------- request bodies
Absent == [k |-> "absent"]
StrVal(s) == [k |-> "str", v |-> s]
IntVal(n) == [k |-> "int", v |-> n]

\* request.url_root always ends with "/"
UrlRoots == {<<"h", "/">>}

Body(t, v, r) == [topic |-> t, video_length |-> v, ratio |-> r]

\* the requests submitted: one of each kind generate() tells apart
Bodies ==
    { Body(StrVal(<<" ", "c">>), Absent, Absent),
      Body(StrVal(<<" ", "c">>), IntVal(0 - 5), StrVal(<<"1:1">>)),
      Body(StrVal(<<" ", "c">>), StrVal(<<"a", "b", "c">>), Absent),
      Body(StrVal(<<>>), Absent, StrVal(<<"1:1">>)),
      Body(StrVal(<<" ">>), IntVal(0 - 5), Absent),
      Body(Absent, StrVal(<<"a", "b", "c">>), Absent) }

\* ------------------------------------------------------ string helpers
IsSpace(c) == c = " "

RECURSIVE lstrip(_)
lstrip(s) == IF s # <<>> /\ IsSpace(Head(s)) THEN lstrip(Tail(s)) ELSE s

RECURSIVE rstrip(_)
rstrip(s) ==
    IF s # <<>> /\ IsSpace(s[Len(s)]) THEN rstrip(SubSeq(s, 1, Len(s) - 1)) ELSE s

strip(s) == rstrip(lstrip(s))

RECURSIVE rstrip_slash(_)
rstrip_slash(s) ==
    IF s # <<>> /\ s[Len(s)] = "/" THEN rstrip_slash(SubSeq(s, 1, Len(s) - 1)) ELSE s

\* body.get(key, default)
BodyGet(body, key, default) == IF body[key].k = "absent" THEN default ELSE body[key]

Digits == {"0", "1", "2", "3", "4", "5", "6", "7", "8", "9"}

\* int(x): an int is kept; a string parses if, surrounding whitespace
\* removed, it is an optional sign and then digits; anything else raises
IntRaises(x) ==
    \/ /\ x.k = "str"
       /\ LET t == strip(x.v)
              u == IF t # <<>> /\ Head(t) \in {"+", "-"} THEN Tail(t) ELSE t
          IN  u = <<>> \/ \E i \in 1..Len(u) : u[i] \notin Digits
    \/ x.k \notin {"str", "int"}

DefaultVideoLength == 60

\* lines 73-74: the values generate() derives from the body
TopicOf(body) == strip(BodyGet(body, "topic", StrVal(<<>>)).v)
VideoLengthRaises(body) ==
    IntRaises(BodyGet(body, "video_length", IntVal(DefaultVideoLength)))

\* ------------------------------------------------- collaborator results
\* what hf_text.text_generation may hand back: a str, a dict, a list
TextResponses ==
    { [t |-> "str", v |-> ""], [t |-> "str", v |-> "s"],
      [t |-> "dict", has |-> TRUE, gt |-> "s"],
      [t |-> "list", items |-> <<[t |-> "dict", has |-> TRUE, gt |-> "s"]>>],
      [t |-> "list", items |-> <<[t |-> "str", v |-> "s"]>>] }

\* str(x) of a value that is not already a str
Repr(x) == IF x.t = "str" THEN x.v ELSE "<repr>"

safe_extract_text(resp) ==
    IF resp.t = "str" THEN resp.v
    ELSE IF resp.t = "dict" /\ resp.has THEN resp.gt
    ELSE IF resp.t = "list" /\ Len(resp.items) > 0
         THEN IF resp.items[1].t = "dict"
              THEN (IF resp.items[1].has THEN resp.items[1].gt ELSE Repr(resp.items[1]))
              ELSE Repr(resp.items[1])
    ELSE Repr(resp)

\* str(e) of the exceptions a stage raises; Exception() has the empty text
ExcTexts == {"", "boom"}

\* ----------------------------------------------------------------- state
VARIABLES
    jobs,       \* the job map: job_id -> [status, message, download_url, script]
    held,       \* history: every value the record of each job has held
    files,      \* temp directory: state of the file each job's worker names
    wpc,        \* worker thread of each job: position in generation_worker
    wloc,       \* worker locals: base_url, script, the caught exception's text
    calls,      \* history: how often each stage was invoked for the job
    passed,     \* history: the stages that succeeded for the job, in order
    hpc,        \* handler thread: position in generate()
    hreq,       \* handler: the request being served (or last served)
    hjob,       \* handler local job_id (0: none)
    hcode,      \* handler: HTTP status returned for hreq (0: not yet)
    issued,     \* history: job ids returned in a 202 response
    qresp       \* the last response status() returned, with the id asked for

vars == <<jobs, held, files, wpc, wloc, calls, passed, hpc, hreq, hjob, hcode, issued,
          qresp>>

workerVars == <<wpc, wloc, calls, passed>>
handlerVars == <<hpc, hreq, hjob, hcode, issued>>
readerVars == <<qresp>>

NoReq == [k |-> "none"]
NoResp == [code |-> 0, id |-> 0]
NewRecord == [status |-> "queued", message |-> "", download_url |-> <<>>, script |-> ""]
NoLocals == [base_url |-> <<>>, script |-> "", raised |-> FALSE]

\* the history of record values once the map is m
Holding(m) == [j \in JobIds |-> IF j \in DOMAIN m THEN held[j] \cup {m[j]} ELSE held[j]]

Init ==
    /\ jobs = <<>>
    /\ held = [j \in JobIds |-> {}]
    /\ files = [j \in JobIds |-> "absent"]
    /\ wpc = [j \in JobIds |-> "none"]
    /\ wloc = [j \in JobIds |-> NoLocals]
    /\ calls = [j \in JobIds |-> [text |-> 0, media |-> 0, store |-> 0]]
    /\ passed = [j \in JobIds |-> <<>>]
    /\ hpc = [r \in Handlers |-> "idle"]
    /\ hreq = [r \in Handlers |-> NoReq]
    /\ hjob = [r \in Handlers |-> 0]
    /\ hcode = [r \in Handlers |-> 0]
    /\ issued = {}
    /\ qresp = NoResp

\* ------------------------------------------------------ generate(), POST
\* uuid4().hex: an identifier no job and no running handler holds yet;
\* identifiers are opaque, the least unused one stands for it
UsedIds == DOMAIN jobs \cup {hjob[r] : r \in Handlers} \cup {j \in JobIds : wpc[j] # "none"}
FreshIds == JobIds \ UsedIds
\* a faulty generator: it hands out the same identifier again
uuid4Repeating == CHOOSE i \in JobIds : \A k \in JobIds : i <= k
uuid4 == CHOOSE i \in FreshIds : \A k \in FreshIds : i <= k

\* the order of lines 82, 87-89 and 91-95; the faulty order starts the
\* thread before the record is stored
GenerateStepsStartFirst == <<"start", "insert", "respond">>
GenerateSteps == <<"insert", "start", "respond">>

StepAfter(step) ==
    LET i == CHOOSE n \in 1..Len(GenerateSteps) : GenerateSteps[n] = step
    IN  IF i = Len(GenerateSteps) THEN "idle" ELSE GenerateSteps[i + 1]

\* lines 72-80: parse the body, validate, draw the job id
Receive(r, body, root) ==
    /\ hpc[r] = "idle"
    /\ hreq' = [hreq EXCEPT ![r] = [body |-> body, url_root |-> root]]
    /\ IF VideoLengthRaises(body)
       THEN \* int() raises at line 74: unhandled, Flask answers 500
            /\ hcode' = [hcode EXCEPT ![r] = 500]
            /\ hjob' = [hjob EXCEPT ![r] = 0]
            /\ hpc' = hpc
       ELSE IF TopicOf(body) = <<>>
       THEN /\ hcode' = [hcode EXCEPT ![r] = 400]
            /\ hjob' = [hjob EXCEPT ![r] = 0]
            /\ hpc' = hpc
       ELSE /\ FreshIds # {}
            /\ hcode' = [hcode EXCEPT ![r] = 0]
            /\ hjob' = [hjob EXCEPT ![r] = uuid4]
            /\ hpc' = [hpc EXCEPT ![r] = GenerateSteps[1]]
    /\ UNCHANGED <<jobs, held, files, workerVars, issued, readerVars>>

\* line 82
InsertRecord(r) ==
    /\ hpc[r] = "insert"
    /\ jobs' = (hjob[r] :> NewRecord) @@ jobs
    /\ hpc' = [hpc EXCEPT ![r] = StepAfter("insert")]
    /\ held' = Holding(jobs')
    /\ UNCHANGED <<files, workerVars, hreq, hjob, hcode, issued, readerVars>>

\* lines 84-89: base_url, Thread(...).start()
StartWorker(r) ==
    /\ hpc[r] = "start"
    /\ wpc' = [wpc EXCEPT ![hjob[r]] = "start"]
    /\ wloc' = [wloc EXCEPT ![hjob[r]].base_url = rstrip_slash(hreq[r].url_root)]
    /\ hpc' = [hpc EXCEPT ![r] = StepAfter("start")]
    /\ UNCHANGED <<jobs, held, files, calls, passed, hreq, hjob, hcode, issued, readerVars>>

\* a faulty Respond: the handler joins the thread before answering
RespondAfterJoin(r) ==
    /\ hpc[r] = "respond"
    /\ wpc[hjob[r]] = "finished"
    /\ hcode' = [hcode EXCEPT ![r] = 202]
    /\ issued' = issued \cup {hjob[r]}
    /\ hpc' = [hpc EXCEPT ![r] = StepAfter("respond")]
    /\ UNCHANGED <<jobs, held, files, workerVars, hreq, hjob, readerVars>>

\* lines 91-95
Respond(r) ==
    /\ hpc[r] = "respond"
    /\ hcode' = [hcode EXCEPT ![r] = 202]
    /\ issued' = issued \cup {hjob[r]}
    /\ hpc' = [hpc EXCEPT ![r] = StepAfter("respond")]
    /\ UNCHANGED <<jobs, held, files, workerVars, hreq, hjob, readerVars>>

\* --------------------------------------------------- generation_worker
\* line 37; faulty: the write is left out and the status stays queued
StatusAtStartSkipped == "queued"
StatusAtStart == "processing"

\* lines 66-67: except Exception; faulty: no handler, the thread just dies
OnExceptionUncaught == "finished"
OnException == "set_error"

\* lines 44-46; faulty: the failure is swallowed and the pipeline goes on
AfterTextIgnoringFailure(ok) == "set_script"
AfterText(ok) == IF ok THEN "set_script" ELSE OnException

\* line 53
AfterVideo(ok) == IF ok THEN "open" ELSE OnException

\* line 59; faulty: the job is published once the file is opened
AfterOpenPublishing(ok) == IF ok THEN "set_done" ELSE OnException
AfterOpen(ok) == IF ok THEN "write" ELSE OnException

\* lines 60-64; faulty: the job is marked done whatever the write did
AfterWriteAlwaysDone(ok) == "set_done"
AfterWrite(ok) == IF ok THEN "set_done" ELSE OnException

\* line 56: short_<uuid4().hex>.mp4, a name no other job's worker draws
Filename(j) == <<"short_", j, ".mp4">>

\* line 63
\* a faulty line 63: the base URL is used as given
DownloadUrlNoStrip(base_url, filename) == base_url \o <<"/download/">> \o filename

DownloadUrl(base_url, filename) == rstrip_slash(base_url) \o <<"/download/">> \o filename

\* a stage raises: e is bound at line 66, its text is read at line 68
Raise(j, pc) ==
    /\ wloc' = [wloc EXCEPT ![j].raised = TRUE]
    /\ wpc' = [wpc EXCEPT ![j] = pc]

\* line 37; a missing key raises KeyError outside the try and ends the thread
WorkerBegin(j) ==
    /\ wpc[j] = "start"
    /\ IF j \in DOMAIN jobs
       THEN /\ jobs' = [jobs EXCEPT ![j].status = StatusAtStart]
            /\ wpc' = [wpc EXCEPT ![j] = "call_text"]
       ELSE /\ jobs' = jobs
            /\ wpc' = [wpc EXCEPT ![j] = "finished"]
    /\ held' = Holding(jobs')
    /\ UNCHANGED <<files, wloc, calls, passed, handlerVars, readerVars>>

\* line 44: the call is issued
InvokeText(j) ==
    /\ wpc[j] = "call_text"
    /\ calls' = [calls EXCEPT ![j].text = @ + 1]
    /\ wpc' = [wpc EXCEPT ![j] = "in_text"]
    /\ UNCHANGED <<jobs, held, files, wloc, passed, handlerVars, readerVars>>

\* lines 44-45: the call returns and the text is extracted
TextReturns(j) ==
    /\ wpc[j] = "in_text"
    /\ \E resp \in TextResponses :
          wloc' = [wloc EXCEPT ![j].script = safe_extract_text(resp)]
    /\ passed' = [passed EXCEPT ![j] = Append(@, "text")]
    /\ wpc' = [wpc EXCEPT ![j] = AfterText(TRUE)]
    /\ UNCHANGED <<jobs, held, files, calls, handlerVars, readerVars>>

TextRaises(j) ==
    /\ wpc[j] = "in_text"
    /\ Raise(j, AfterText(FALSE))
    /\ UNCHANGED <<jobs, held, files, calls, passed, handlerVars, readerVars>>

\* line 46
StoreScript(j) ==
    /\ wpc[j] = "set_script"
    /\ jobs' = [jobs EXCEPT ![j].script = wloc[j].script]
    /\ wpc' = [wpc EXCEPT ![j] = "call_video"]
    /\ held' = Holding(jobs')
    /\ UNCHANGED <<files, wloc, calls, passed, handlerVars, readerVars>>

\* line 53: the call is issued
InvokeVideo(j) ==
    /\ wpc[j] = "call_video"
    /\ calls' = [calls EXCEPT ![j].media = @ + 1]
    /\ wpc' = [wpc EXCEPT ![j] = "in_video"]
    /\ UNCHANGED <<jobs, held, files, wloc, passed, handlerVars, readerVars>>

VideoReturns(j) ==
    /\ wpc[j] = "in_video"
    /\ passed' = [passed EXCEPT ![j] = Append(@, "media")]
    /\ wpc' = [wpc EXCEPT ![j] = AfterVideo(TRUE)]
    /\ UNCHANGED <<jobs, held, files, wloc, calls, handlerVars, readerVars>>

VideoRaises(j) ==
    /\ wpc[j] = "in_video"
    /\ Raise(j, AfterVideo(FALSE))
    /\ UNCHANGED <<jobs, held, files, calls, passed, handlerVars, readerVars>>

\* line 59: open(filepath, "wb") creates the file, empty
OpenFile(j) ==
    /\ wpc[j] = "open"
    /\ calls' = [calls EXCEPT ![j].store = @ + 1]
    /\ \/ /\ files' = [files EXCEPT ![j] = "partial"]
          /\ wpc' = [wpc EXCEPT ![j] = AfterOpen(TRUE)]
          /\ wloc' = wloc
       \/ /\ files' = files
          /\ Raise(j, AfterOpen(FALSE))
    /\ UNCHANGED <<jobs, held, passed, handlerVars, readerVars>>

\* line 60 and the close at the end of the with block
WriteFile(j) ==
    /\ wpc[j] = "write"
    /\ \/ /\ files' = [files EXCEPT ![j] = "complete"]
          /\ passed' = [passed EXCEPT ![j] = Append(@, "store")]
          /\ wpc' = [wpc EXCEPT ![j] = AfterWrite(TRUE)]
          /\ wloc' = wloc
       \/ /\ files' = files
          /\ passed' = passed
          /\ Raise(j, AfterWrite(FALSE))
    /\ UNCHANGED <<jobs, held, calls, handlerVars, readerVars>>

\* line 64
SetDone(j) ==
    /\ wpc[j] = "set_done"
    /\ jobs' = [jobs EXCEPT ![j].status = "done"]
    /\ wpc' = [wpc EXCEPT ![j] = "set_url"]
    /\ held' = Holding(jobs')
    /\ UNCHANGED <<files, wloc, calls, passed, handlerVars, readerVars>>

\* line 65
SetUrl(j) ==
    /\ wpc[j] = "set_url"
    /\ jobs' = [jobs EXCEPT ![j].download_url = DownloadUrl(wloc[j].base_url, Filename(j))]
    /\ wpc' = [wpc EXCEPT ![j] = "finished"]
    /\ held' = Holding(jobs')
    /\ UNCHANGED <<files, wloc, calls, passed, handlerVars, readerVars>>

\* a faulty line 67: the record is replaced by a fresh error record
SetErrorFreshRecord(j) ==
    /\ wpc[j] = "set_error"
    /\ jobs' = [jobs EXCEPT ![j] = [NewRecord EXCEPT !.status = "error"]]
    /\ wpc' = [wpc EXCEPT ![j] = "set_message"]
    /\ held' = Holding(jobs')
    /\ UNCHANGED <<files, wloc, calls, passed, handlerVars, readerVars>>

\* line 67
SetError(j) ==
    /\ wpc[j] = "set_error"
    /\ jobs' = [jobs EXCEPT ![j].status = "error"]
    /\ wpc' = [wpc EXCEPT ![j] = "set_message"]
    /\ held' = Holding(jobs')
    /\ UNCHANGED <<files, wloc, calls, passed, handlerVars, readerVars>>

\* line 68
SetMessage(j) ==
    /\ wpc[j] = "set_message"
    /\ \E e \in ExcTexts : jobs' = [jobs EXCEPT ![j].message = e]
    /\ wpc' = [wpc EXCEPT ![j] = "finished"]
    /\ held' = Holding(jobs')
    /\ UNCHANGED <<files, wloc, calls, passed, handlerVars, readerVars>>

WorkerStep(j) ==
    \/ WorkerBegin(j) \/ InvokeText(j) \/ TextReturns(j) \/ TextRaises(j)
    \/ StoreScript(j) \/ InvokeVideo(j) \/ VideoReturns(j) \/ VideoRaises(j)
    \/ OpenFile(j) \/ WriteFile(j) \/ SetDone(j) \/ SetUrl(j)
    \/ SetError(j) \/ SetMessage(j)

\* ------------------------------------------------------- status(), GET
Terminal(rec) == rec.status \in {"done", "error"}

\* a faulty status(): jobs.pop(job_id) takes the record out of the map
StatusPopping(id) ==
    /\ qresp' = IF id \in DOMAIN jobs
                THEN [code |-> 200, id |-> id, rec |-> jobs[id]]
                ELSE [code |-> 404, id |-> id]
    /\ jobs' = [k \in DOMAIN jobs \ {id} |-> jobs[k]]
    /\ held' = held
    /\ UNCHANGED <<files, workerVars, handlerVars>>

\* a faulty status(): the status field is the one fetched by the previous
\* read of the job, the other fields are read now
StatusTorn(id) ==
    /\ qresp' = IF id \in DOMAIN jobs
                THEN [code |-> 200, id |-> id,
                      rec |-> IF qresp.code = 200 /\ qresp.id = id
                              THEN [jobs[id] EXCEPT !.status = qresp.rec.status]
                              ELSE jobs[id]]
                ELSE [code |-> 404, id |-> id]
    /\ UNCHANGED <<jobs, held, files, workerVars, handlerVars>>

\* lines 99-102: jobs.get(job_id), 404 when there is no record, else the
\* record's fields as they are when jsonify reads them
Status(id) ==
    /\ qresp' = IF id \in DOMAIN jobs
                THEN [code |-> 200, id |-> id, rec |-> jobs[id]]
                ELSE [code |-> 404, id |-> id]
    /\ UNCHANGED <<jobs, held, files, workerVars, handlerVars>>

HandlerStep(r) ==
    \/ \E body \in Bodies, root \in UrlRoots : Receive(r, body, root)
    \/ InsertRecord(r) \/ StartWorker(r) \/ Respond(r)

ReaderStep == \E id \in JobIds : Status(id)

Next ==
    \/ \E r \in Handlers : HandlerStep(r)
    \/ \E j \in JobIds : WorkerStep(j)
    \/ ReaderStep

Spec == Init /\ [][Next]_vars

\* the worker threads are scheduled and every collaborator call returns
FairSpec == Spec /\ \A j \in JobIds : WF_vars(WorkerStep(j))

\* the handler threads are scheduled; nothing is assumed of the workers
HandlerFairSpec ==
    Spec /\ \A r \in Handlers : WF_vars(InsertRecord(r) \/ StartWorker(r) \/ Respond(r))

\* ---------------------------------------------------------------- claims
StatusOf(j) == jobs[j].status
Started(j) == wpc[j] # "none"

\* C1: a job's status only moves queued -> processing -> done or
\* queued -> processing -> error; a new record starts queued, no record is
\* removed, and a done or error status never changes again.
StatusMonotonic ==
    [][ /\ \A j \in DOMAIN jobs :
              /\ j \in DOMAIN jobs'
              /\ \/ jobs'[j].status = jobs[j].status
                 \/ <<jobs[j].status, jobs'[j].status>> \in
                        { <<"queued", "processing">>, <<"processing", "done">>,
                          <<"processing", "error">> }
        /\ \A j \in DOMAIN jobs' \ DOMAIN jobs : jobs'[j].status = "queued" ]_vars

BothTerminalStatusesReached ==
    \E j, k \in DOMAIN jobs : StatusOf(j) = "done" /\ StatusOf(k) = "error"

\* C2: in every reachable state a job's download_url is non-empty exactly
\* when its status is done.
UrlIffDone ==
    \A j \in DOMAIN jobs : (jobs[j].download_url # <<>>) <=> (StatusOf(j) = "done")

\* C3: in every reachable state a job's message is non-empty exactly when
\* its status is error.
MessageIffError ==
    \A j \in DOMAIN jobs : (jobs[j].message # "") <=> (StatusOf(j) = "error")

\* C4: no stage is invoked after an earlier stage of the job failed, and no
\* stage is invoked twice: media generation is only invoked after text
\* generation succeeded, storage only after media generation succeeded.
NoStageAfterFailure ==
    \A j \in JobIds :
        /\ calls[j].text <= 1 /\ calls[j].media <= 1 /\ calls[j].store <= 1
        /\ calls[j].media > 0 => (Len(passed[j]) >= 1 /\ passed[j][1] = "text")
        /\ calls[j].store > 0 => (Len(passed[j]) >= 2 /\ passed[j][2] = "media")
        /\ wloc[j].raised =>
              /\ wpc[j] \notin {"call_text", "in_text", "set_script", "call_video",
                                "in_video", "open", "write", "set_done", "set_url"}
              /\ Len(passed[j]) = 0 => calls[j].media = 0 /\ calls[j].store = 0
              /\ Len(passed[j]) = 1 => calls[j].store = 0

TextFailureEndedPipeline ==
    \E j \in JobIds :
        /\ wpc[j] = "finished" /\ calls[j].text = 1 /\ passed[j] = <<>>
        /\ calls[j].media = 0 /\ calls[j].store = 0

\* C5: a job's status is done only if text generation, media generation and
\* storage succeeded for it, in that order; a failed store never yields done.
DoneOnlyAfterAllStages ==
    \A j \in DOMAIN jobs :
        StatusOf(j) = "done" =>
            passed[j] = <<"text", "media", "store">> /\ files[j] = "complete"

DoneWithStoredFile ==
    /\ \E j \in DOMAIN jobs : StatusOf(j) = "done" /\ files[j] = "complete"
    /\ \E k \in DOMAIN jobs : StatusOf(k) = "error" /\ files[k] = "partial"

\* C6: with the worker scheduled fairly and every collaborator and storage
\* call returning, every job whose id submit returned eventually is done or
\* error, and a worker never ends with its record still queued or processing.
EveryJobTerminates ==
    /\ \A j \in JobIds :
          (j \in issued) ~> (j \in DOMAIN jobs /\ Terminal(jobs[j]))
    /\ [](\A j \in JobIds :
             wpc[j] = "finished" => (j \in DOMAIN jobs /\ Terminal(jobs[j])))

FailedJobEndedInError ==
    \E j \in issued :
        /\ wpc[j] = "finished" /\ StatusOf(j) = "error"
        /\ passed[j] = <<"text", "media">> /\ calls[j].store = 1

\* C7: once a submission is accepted the handler answers 202 with the job
\* id whether or not the worker ever takes a step: only the handler thread
\* is assumed to be scheduled.
SubmitNeverWaits ==
    \A r \in Handlers : (hpc[r] # "idle") ~> (hpc[r] = "idle" /\ hcode[r] = 202)

SubmitReturnedDuringCall ==
    \E r \in Handlers :
        /\ hpc[r] = "idle" /\ hcode[r] = 202 /\ hjob[r] \in issued
        /\ wpc[hjob[r]] = "in_text" /\ StatusOf(hjob[r]) = "processing"

\* C8: a job's record exists, queued, before its worker is started: a started
\* worker always finds its record, until the worker has invoked a
\* collaborator the record reads queued or processing, and a status lookup
\* for a job whose worker is started (so for every id submit returned) is
\* never answered NotFound.
RecordBeforeWorker ==
    /\ [](\A j \in JobIds :
             (Started(j) \/ j \in issued) =>
                 /\ Started(j)
                 /\ j \in DOMAIN jobs
                 /\ calls[j].text = 0 => StatusOf(j) \in {"queued", "processing"})
    /\ [][ \A j \in JobIds :
              (Started(j) /\ qresp' # qresp /\ qresp'.id = j) =>
                  /\ qresp'.code = 200
                  /\ calls[j].text = 0 => qresp'.rec.status \in {"queued", "processing"} ]_vars

QueuedReadBeforeWorkerRan ==
    \E j \in issued :
        /\ wpc[j] = "start" /\ StatusOf(j) = "queued"
        /\ qresp.code = 200 /\ qresp.id = j /\ qresp.rec.status = "queued"

\* C9: once a status read returned a done or error record for a job, the
\* next status read for that job (and so every later one) returns the same
\* status, message, download_url and script.
TerminalReadsRepeat ==
    [][ (qresp.code = 200 /\ Terminal(qresp.rec) /\ qresp'.id = qresp.id) =>
            qresp' = qresp ]_vars

\* C10: a submission whose topic is missing, empty or only whitespace is
\* answered 400 whatever its video_length and ratio, changes no job record
\* and starts no worker.
BlankTopic(body) ==
    \/ body.topic.k = "absent"
    \/ body.topic.k = "str" /\ \A i \in 1..Len(body.topic.v) : IsSpace(body.topic.v[i])

MissingTopicAnswered400 ==
    [][ \A r \in Handlers :
          ( /\ hpc[r] = "idle"
            /\ <<hpc[r], hreq[r], hcode[r], hjob[r]>>' # <<hpc[r], hreq[r], hcode[r], hjob[r]>>
            /\ BlankTopic(hreq'[r].body) ) =>
              (hcode'[r] = 400 /\ hpc'[r] = "idle" /\ jobs' = jobs /\ wpc' = wpc) ]_vars

\* C11: jobs do not interfere: an accepted submission draws an identifier no
\* other submission holds, a worker is started exactly once per accepted
\* submission (by the handler that holds the id), and a step of one job's
\* worker leaves every other job's record unchanged.
JobsIndependent ==
    /\ [](\A j \in issued : Started(j))
    /\ [][ /\ \A r \in Handlers :
                (hpc[r] = "idle" /\ hpc'[r] # "idle") => hjob'[r] \notin UsedIds
           /\ \A j \in JobIds :
                (wpc'[j] = "start" /\ wpc[j] # "start") =>
                    (wpc[j] = "none" /\ \E r \in Handlers : hjob[r] = j /\ hpc[r] = "start")
           /\ \A j \in JobIds :
                (wpc[j] # "none" /\ wpc'[j] # wpc[j]) =>
                    \A k \in DOMAIN jobs \ {j} :
                        k \in DOMAIN jobs' /\ jobs'[k] = jobs[k] ]_vars

TwoJobsOwnOutcomes ==
    \E j, k \in issued :
        /\ j # k /\ wpc[j] = "finished" /\ wpc[k] = "finished"
        /\ StatusOf(j) = "done" /\ jobs[j].download_url # <<>> /\ jobs[j].message = ""
        /\ StatusOf(k) = "error" /\ jobs[k].message = "boom" /\ jobs[k].download_url = <<>>

\* C12: a job whose text generation, media generation and storage all
\* succeeded eventually has status done, and whenever a job has status done
\* its script is non-empty.
SucceededJobDoneWithScript ==
    /\ \A j \in JobIds :
          (passed[j] = <<"text", "media", "store">>) ~>
              (j \in DOMAIN jobs /\ StatusOf(j) = "done")
    /\ [](\A j \in DOMAIN jobs : StatusOf(j) = "done" => jobs[j].script # "")

\* C13 as claimed: a status read never changes the job map, answers NotFound
\* exactly for the ids no submit has returned yet, and never answers NotFound
\* for an id submit has returned.
NotFoundExactlyForUnissued ==
    [][ qresp' # qresp =>
          /\ jobs' = jobs
          /\ (qresp'.code = 404) <=> (qresp'.id \notin issued) ]_vars

\* C13 as amended: a status read never changes the job map and answers
\* NotFound exactly for the ids that have no record in the map; an id submit
\* has returned has a record, so it is never answered NotFound, and no record
\* is ever removed.
NotFoundExactlyForAbsent ==
    /\ [](issued \subseteq DOMAIN jobs)
    /\ [][ /\ qresp' # qresp =>
                /\ jobs' = jobs
                /\ (qresp'.code = 404) <=> (qresp'.id \notin DOMAIN jobs)
                /\ qresp'.id \in issued => qresp'.code = 200
           /\ \A j \in DOMAIN jobs : j \in DOMAIN jobs' ]_vars

UnknownIdNotFound ==
    /\ qresp.code = 404 /\ qresp.id \notin DOMAIN jobs
    /\ \E j \in issued : wpc[j] = "finished"

BadVideoLength(body) ==
    \/ body.video_length.k = "int" /\ body.video_length.v < 0
    \/ /\ body.video_length.k = "str"
       /\ \E i \in 1..Len(body.video_length.v) :
             body.video_length.v[i] \notin Digits \cup {"+", "-", " "}

BadVideoLengthRejected ==
    [][ \A r \in Handlers :
          ( /\ hpc[r] = "idle"
            /\ <<hpc[r], hreq[r], hcode[r], hjob[r]>>' # <<hpc[r], hreq[r], hcode[r], hjob[r]>>
            /\ ~BlankTopic(hreq'[r].body)
            /\ BadVideoLength(hreq'[r].body) ) =>
              (hcode'[r] = 400 /\ hpc'[r] = "idle" /\ jobs' = jobs /\ wpc' = wpc) ]_vars

\* C16: the worker sets the status to processing before it invokes any
\* collaborator: text generation, media generation and storage are invoked
\* only while the job's status is processing, never while it is queued.
ProcessingBeforeCalls ==
    /\ [](\A j \in JobIds :
             (calls[j].text + calls[j].media + calls[j].store > 0 \/ files[j] # "absent") =>
                 (j \in DOMAIN jobs /\ StatusOf(j) # "queued"))
    /\ [][ \A j \in JobIds :
              calls'[j] # calls[j] => (j \in DOMAIN jobs /\ StatusOf(j) = "processing") ]_vars

MediaCallWhileProcessing ==
    \E j \in JobIds :
        wpc[j] = "in_video" /\ calls[j].media = 1 /\ StatusOf(j) = "processing"

\* C17: a job's script is empty until its text-generation call has returned
\* successfully, it is written once (line 46, with the extracted text) and
\* no later step changes it, a media or storage failure included; a job
\* whose text generation failed ends with an empty script.
ScriptWrittenOnce ==
    /\ [](\A j \in DOMAIN jobs :
             /\ (Len(passed[j]) = 0) => jobs[j].script = ""
             /\ (wpc[j] = "finished" /\ Len(passed[j]) = 0) => jobs[j].script = "")
    /\ [][ \A j \in DOMAIN jobs :
              jobs'[j].script # jobs[j].script =>
                  /\ wpc[j] = "set_script" /\ wpc'[j] # "set_script"
                  /\ jobs[j].script = ""
                  /\ jobs'[j].script = wloc[j].script ]_vars
    /\ [][ \A j \in DOMAIN jobs :
              wpc[j] \in {"call_video", "in_video", "open", "write", "set_done",
                          "set_url", "set_error", "set_message", "finished"} =>
                  jobs'[j].script = jobs[j].script ]_vars

ScriptKeptThroughFailure ==
    \E j \in DOMAIN jobs :
        /\ wpc[j] = "finished" /\ StatusOf(j) = "error" /\ jobs[j].script = "s"
        /\ passed[j] = <<"text">>

\* generation_worker called directly (line 36): every job has its record,
\* and the base URL argument is any stem followed by 0..MaxSlashes slashes.
MaxSlashes == 2

RECURSIVE Slashes(_)
Slashes(n) == IF n = 0 THEN <<>> ELSE <<"/">> \o Slashes(n - 1)

BaseUrlStems == {<<"h">>, <<"h", "/", "x">>}

BaseUrls == {stem \o Slashes(n) : stem \in BaseUrlStems, n \in 0..MaxSlashes}

InitWorker ==
    /\ jobs = [j \in JobIds |-> NewRecord]
    /\ held = [j \in JobIds |-> {NewRecord}]
    /\ files = [j \in JobIds |-> "absent"]
    /\ wpc = [j \in JobIds |-> "start"]
    /\ wloc \in [JobIds -> {[NoLocals EXCEPT !.base_url = b] : b \in BaseUrls}]
    /\ calls = [j \in JobIds |-> [text |-> 0, media |-> 0, store |-> 0]]
    /\ passed = [j \in JobIds |-> <<>>]
    /\ hpc = [r \in Handlers |-> "idle"]
    /\ hreq = [r \in Handlers |-> NoReq]
    /\ hjob = [r \in Handlers |-> 0]
    /\ hcode = [r \in Handlers |-> 0]
    /\ issued = {}
    /\ qresp = NoResp

NextWorker == \E j \in JobIds : WorkerStep(j)

WorkerSpec == InitWorker /\ [][NextWorker]_vars

\* C18: download_url is the base URL given to the worker with its trailing
\* slashes removed (and nothing else removed), followed by "/download/" and
\* the file name, whether or not the base URL ends in slashes.
DownloadUrlFromStrippedBase ==
    \A j \in DOMAIN jobs :
        jobs[j].download_url # <<>> =>
            LET b == wloc[j].base_url IN
            \E n \in 0..Len(b) :
                /\ n > 0 => b[n] # "/"
                /\ \A i \in (n + 1)..Len(b) : b[i] = "/"
                /\ jobs[j].download_url = SubSeq(b, 1, n) \o <<"/download/">> \o Filename(j)

UrlBuiltFromSlashedBase ==
    \E j \in DOMAIN jobs :
        /\ jobs[j].download_url # <<>>
        /\ wloc[j].base_url = <<"h", "/", "x", "/", "/">>

\* lines 104-107: what GET /download/<filename> serves for job j's file
download(j) ==
    CASE files[j] = "absent"   -> [code |-> 404, content |-> "none"]
      [] files[j] = "partial"  -> [code |-> 200, content |-> "partial"]
      [] files[j] = "complete" -> [code |-> 200, content |-> "complete"]

FullFile == [code |-> 200, content |-> "complete"]

\* C19: an artifact is published only after it is completely stored: when
\* a job's download_url is non-empty or its status is done, the file the URL
\* names is fully written and stays so, hence a download following a status
\* response that carried the URL serves the whole file, never NotFound or a
\* partial file.
PublishedOnlyWhenStored ==
    /\ [](\A j \in DOMAIN jobs :
             (jobs[j].download_url # <<>> \/ StatusOf(j) = "done") => download(j) = FullFile)
    /\ [](\A j \in DOMAIN jobs :
             jobs[j].download_url # <<>> =>
                 \E n \in 0..Len(jobs[j].download_url) :
                     jobs[j].download_url =
                         SubSeq(jobs[j].download_url, 1, n) \o <<"/download/">> \o Filename(j))
    /\ [](qresp.code = 200 =>
             ((qresp.rec.download_url # <<>> \/ qresp.rec.status = "done") =>
                 download(qresp.id) = FullFile))
    /\ [][ \A j \in JobIds : files[j] = "complete" => files'[j] = "complete" ]_vars

StatusShowedStoredArtifact ==
    /\ qresp.code = 200
    /\ qresp.rec.download_url # <<>>
    /\ download(qresp.id) = FullFile

====
